---- MODULE Spec2Model ----
(***************************************************************************)
(* Wingman flight logbook: the flight-time bookkeeping of logbook/models.py *)
(* (Flight.save, Flight.exact_flight_minutes, the Flight properties),       *)
(* logbook/forms.py (TimeInMinutesField, FlightForm), the minutes_to_time   *)
(* template filter, AircraftDeleteView and the recalculate_flight_times     *)
(* management command.                                                      *)
(*                                                                          *)
(* Units.  A time of day is a number of seconds since midnight (TimeField   *)
(* values at one-second resolution).  A category duration is a number of    *)
(* minutes.  total_time is a decimal number of hours and is held in         *)
(* hundredths of an hour: Flight.save quantizes it to 0.01, the database    *)
(* column (max_digits=4, decimal_places=1) keeps tenths only.  None is -1   *)
(* in a numeric field and 0 in the aircraft reference.                      *)
(***************************************************************************)
EXTENDS Integers, Sequences, FiniteSets, TLC

VARIABLES
    aircraft,       \* the Aircraft table: primary key -> row
    flights,        \* the Flight table: primary key -> row
    half_even,      \* the deployment's rounding of an exact half in total_time
    form,           \* the last FlightForm submission and what became of it
    calc            \* the last command run or function applied, and its result

vars == <<aircraft, flights, half_even, form, calc>>

None == -1

\* timedelta(days=1), in seconds.
SecondsPerDay == 86400

\* total_seconds() / 60
SecondsPerMinute == 60

\* the hour of 60 minutes: total_time * 60, value // 60, value % 60
MinutesPerHour == 60

\* timedelta(days=1), in minutes.
MinutesPerDay == 1440

(***************************************************************************)
(* Duration arithmetic                                                      *)
(***************************************************************************)

\* A plausible slip: the overnight test written <= instead of <.
ElapsedSecondsOvernightOnEqual(departure_time, arrival_time) ==
    IF arrival_time <= departure_time
    THEN arrival_time + SecondsPerDay - departure_time
    ELSE arrival_time - departure_time

\* datetime.combine on the same date, the overnight rollover, and the
\* difference: (arrival_dt - departure_dt).total_seconds().
ElapsedSeconds(departure_time, arrival_time) ==
    IF arrival_time < departure_time
    THEN arrival_time + SecondsPerDay - departure_time
    ELSE arrival_time - departure_time

\* int(x / 60) for a non-negative number of seconds: truncation.
TruncMinutes(seconds) == seconds \div SecondsPerMinute

\* round(x / 60): Python 3 rounds an exact half to the even neighbour.
RoundMinutes(seconds) ==
    LET q == seconds \div SecondsPerMinute
        r == seconds % SecondsPerMinute
    IN  IF 2 * r < SecondsPerMinute THEN q
        ELSE IF 2 * r > SecondsPerMinute THEN q + 1
        ELSE IF q % 2 = 0 THEN q ELSE q + 1

\* Decimal(str(minutes / 60)).quantize(Decimal('0.01')) and
\* round(minutes / 60, 2), in hundredths of an hour: the nearest hundredth of
\* minutes / 60 = 5 * minutes / 3 hundredths (its fraction is 0, 1/3 or 2/3,
\* so no tie arises).
HoursHundredths(minutes) == (10 * minutes + 3) \div 6

\* int(total_time * 60) for a Decimal total_time, total_time in hundredths.
DecimalMinutes(total_time) == (MinutesPerHour * total_time) \div 100

\* The hundredths h for which the binary floating-point product
\* (h / 100) * 60 falls just below the whole number 3h/5, so that int()
\* returns one less (0 < h <= 2400).
FloatProductLow == {205, 410, 820, 845, 1615, 1640, 1665, 1690}

\* int(total_time * 60) for a float total_time (the recalculation command
\* assigns a float), total_time in hundredths.
FloatMinutes(total_time) ==
    IF total_time \in FloatProductLow
    THEN DecimalMinutes(total_time) - 1
    ELSE DecimalMinutes(total_time)

\* The value the decimal(4,1) column returns for a total_time of h
\* hundredths: the nearest tenth.  An exact half goes to the even tenth where
\* Django quantizes the value (half_even) and away from zero where the
\* database rounds it.
StoredTotalTime(h) ==
    LET lo == (h \div 10) * 10
    IN  IF h % 10 < 5 THEN lo
        ELSE IF h % 10 > 5 THEN lo + 10
        ELSE IF half_even /\ (lo \div 10) % 2 = 0 THEN lo
        ELSE lo + 10

\* A plausible slip: the overnight test written <= instead of <.
exact_flight_minutes_overnight_on_equal(self) ==
    IF self.departure_time # None /\ self.arrival_time # None
    THEN TruncMinutes(ElapsedSecondsOvernightOnEqual(self.departure_time,
                                                     self.arrival_time))
    ELSE IF self.total_time # None /\ self.total_time # 0
         THEN DecimalMinutes(self.total_time)
         ELSE 0

\* Flight.exact_flight_minutes
exact_flight_minutes(self) ==
    IF self.departure_time # None /\ self.arrival_time # None
    THEN TruncMinutes(ElapsedSeconds(self.departure_time, self.arrival_time))
    ELSE IF self.total_time # None /\ self.total_time # 0
         THEN DecimalMinutes(self.total_time)
         ELSE 0

\* Flight.save, lines 94-110: total_time when it is not provided (None or
\* zero), else the value the instance already holds.
SaveTotalTime(self) ==
    IF self.total_time = None \/ self.total_time = 0
    THEN IF self.departure_time # None /\ self.arrival_time # None
         THEN HoursHundredths(RoundMinutes(ElapsedSeconds(self.departure_time,
                                                          self.arrival_time)))
         ELSE self.total_time
    ELSE self.total_time

\* A plausible slip: the legacy field left out of the property.
is_cross_country_route_only(self) ==
    self.departure_aerodrome # self.arrival_aerodrome

\* Flight.is_cross_country
is_cross_country(self) ==
    IF self.cross_country_time > 0 THEN TRUE
    ELSE self.departure_aerodrome # self.arrival_aerodrome

(***************************************************************************)
(* Text of a clock duration: a sequence of one-character strings            *)
(***************************************************************************)

DigitChars == <<"0", "1", "2", "3", "4", "5", "6", "7", "8", "9">>

DigitSet == {DigitChars[i] : i \in 1..10}

DigitValue(c) == (CHOOSE i \in 1..10 : DigitChars[i] = c) - 1

RECURSIVE Digits(_)
\* str(n) for an integer n >= 0
Digits(n) ==
    IF n < 10 THEN <<DigitChars[n + 1]>>
    ELSE Digits(n \div 10) \o <<DigitChars[(n % 10) + 1]>>

\* A plausible slip: a field of exactly two characters, the high digits
\* of a longer number cut off.
Format02dTwoDigitsOnly(n) ==
    <<DigitChars[((n \div 10) % 10) + 1], DigitChars[(n % 10) + 1]>>

\* format(n, "02d") for n >= 0: at least two digits, zero-padded
Format02d(n) == IF n < 10 THEN <<"0">> \o Digits(n) ELSE Digits(n)

\* f"{hours:02d}:{minutes:02d}" with hours = value // 60, minutes = value % 60
ClockText(value) ==
    Format02d(value \div MinutesPerHour) \o <<":">> \o Format02d(value % MinutesPerHour)

ZeroClock == <<"0", "0", ":", "0", "0">>

\* TimeInMinutesField.prepare_value, for None (-1) or an integer >= 0
prepare_value(value) ==
    IF value # None /\ value # 0 THEN ClockText(value) ELSE ZeroClock

\* the minutes_to_time template filter, for None (-1) or an integer >= 0
minutes_to_time(minutes) ==
    IF minutes = None \/ minutes = 0 THEN ZeroClock ELSE ClockText(minutes)

RECURSIVE SplitAt(_, _, _)
\* str.split(sep): cur is the part being read
SplitAt(s, sep, cur) ==
    IF s = <<>> THEN <<cur>>
    ELSE IF Head(s) = sep THEN <<cur>> \o SplitAt(Tail(s), sep, <<>>)
    ELSE SplitAt(Tail(s), sep, Append(cur, Head(s)))

Split(s, sep) == SplitAt(s, sep, <<>>)

RECURSIVE LStrip(_)
LStrip(s) == IF s # <<>> /\ Head(s) = " " THEN LStrip(Tail(s)) ELSE s

RECURSIVE RStrip(_)
RStrip(s) ==
    IF s # <<>> /\ s[Len(s)] = " " THEN RStrip(SubSeq(s, 1, Len(s) - 1)) ELSE s

\* str.strip() for the blank character
Strip(s) == RStrip(LStrip(s))

\* The literal after the sign is digits, single underscores allowed between
\* two digits.
IsIntLiteral(s) ==
    /\ s # <<>>
    /\ \A i \in 1..Len(s) :
          \/ s[i] \in DigitSet
          \/ /\ s[i] = "_"
             /\ i > 1 /\ i < Len(s)
             /\ s[i - 1] \in DigitSet /\ s[i + 1] \in DigitSet

RECURSIVE LiteralValue(_, _)
LiteralValue(s, acc) ==
    IF s = <<>> THEN acc
    ELSE IF Head(s) = "_" THEN LiteralValue(Tail(s), acc)
    ELSE LiteralValue(Tail(s), 10 * acc + DigitValue(Head(s)))

ValueError == [ok |-> FALSE, value |-> 0]

\* int(text): blanks stripped, an optional sign, then the literal;
\* ValueError for anything else.
PyInt(text) ==
    LET s    == Strip(text)
        sign == IF s # <<>> /\ Head(s) \in {"+", "-"} THEN Head(s) ELSE ""
        body == IF sign = "" THEN s ELSE Tail(s)
    IN  IF IsIntLiteral(body)
        THEN [ok |-> TRUE,
              value |-> IF sign = "-" THEN 0 - LiteralValue(body, 0)
                        ELSE LiteralValue(body, 0)]
        ELSE ValueError

\* TimeInMinutesField.clean: [ok |-> TRUE, value |-> minutes], or ok = FALSE
\* for the ValidationError.  The empty text stands for a missing value.
TimeInMinutesField_clean(value) ==
    IF value = <<>> \/ value = ZeroClock THEN [ok |-> TRUE, value |-> 0]
    ELSE IF \E i \in 1..Len(value) : value[i] = ":"
    THEN LET parts == Split(value, ":")
         IN  IF Len(parts) = 2 /\ PyInt(parts[1]).ok /\ PyInt(parts[2]).ok
             THEN [ok |-> TRUE,
                   value |-> PyInt(parts[1]).value * MinutesPerHour + PyInt(parts[2]).value]
             ELSE ValueError
    ELSE PyInt(value)

(***************************************************************************)
(* The store: Aircraft and Flight rows by primary key                       *)
(***************************************************************************)

\* Flight.aircraft is NULL
NoAircraft == 0

EngineTypes == {"SINGLE", "MULTI"}

\* The ten category durations of a flight, in the order FlightForm.clean
\* validates them.
CategoryOrder ==
    <<"night_time", "ifr_time", "single_engine_time", "multi_engine_time",
      "pic_time", "copilot_time", "multi_pilot_time", "double_command_time",
      "instructor_time", "simulator_time">>

Categories == {CategoryOrder[i] : i \in 1..Len(CategoryOrder)}

\* Flight(): the field defaults of a new instance.  The date is left out: both
\* instants of a duration are combined with the same date.  Landings, remarks
\* and the other fields that no computation reads are left out too.
NewFlight ==
    [pilot |-> "", aircraft |-> NoAircraft,
     aircraft_registration |-> <<>>, aircraft_manufacturer |-> "",
     aircraft_type |-> "", aircraft_engine_type |-> "",
     departure_aerodrome |-> "", arrival_aerodrome |-> "",
     departure_time |-> None, arrival_time |-> None, total_time |-> None,
     single_engine_time |-> 0, multi_engine_time |-> 0, multi_pilot_time |-> 0,
     night_time |-> 0, ifr_time |-> 0, pic_time |-> 0, copilot_time |-> 0,
     double_command_time |-> 0, instructor_time |-> 0, simulator_time |-> 0,
     cross_country_time |-> 0]

\* int(self.total_time * 60) if self.total_time else 0; is_float tells a float
\* total_time (assigned by the recalculation command) from a Decimal.
TotalTimeMinutes(total_time, is_float) ==
    IF total_time = None \/ total_time = 0 THEN 0
    ELSE IF is_float THEN FloatMinutes(total_time)
    ELSE DecimalMinutes(total_time)

\* Flight.save, lines 123-134: the engine times; ac is the Aircraft row that
\* self.aircraft refers to.
SaveEngineTimes(self, ac, is_float) ==
    IF self.aircraft # NoAircraft
    THEN IF ac.engine_type = "SINGLE"
         THEN [self EXCEPT !.single_engine_time = TotalTimeMinutes(self.total_time, is_float),
                           !.multi_engine_time = 0]
         ELSE IF ac.engine_type = "MULTI"
         THEN [self EXCEPT !.multi_engine_time = TotalTimeMinutes(self.total_time, is_float),
                           !.single_engine_time = 0]
         ELSE self
    ELSE [self EXCEPT !.single_engine_time = 0, !.multi_engine_time = 0]

\* Flight.save, lines 113-121: the preserved aircraft details are filled in
\* where they are blank.
SavePreservedDetails(self, ac) ==
    IF self.aircraft # NoAircraft
    THEN [self EXCEPT
            !.aircraft_registration =
                IF @ = <<>> THEN ac.registration ELSE @,
            !.aircraft_manufacturer =
                IF @ = "" THEN ac.manufacturer ELSE @,
            !.aircraft_type = IF @ = "" THEN ac.type ELSE @,
            !.aircraft_engine_type = IF @ = "" THEN ac.engine_type ELSE @]
    ELSE self

\* The Aircraft row a flight refers to (any row when it refers to none: the
\* code does not read it then).
AircraftOf(self) ==
    IF self.aircraft # NoAircraft THEN aircraft[self.aircraft]
    ELSE [registration |-> <<>>, type |-> "", manufacturer |-> "", engine_type |-> ""]

\* Flight.save up to super().save(): the instance as it is in memory
\* afterwards.  is_float tells that the caller assigned a float total_time;
\* a total_time that save computes itself is a Decimal.
Flight_save(self, is_float) ==
    LET computed == self.total_time = None \/ self.total_time = 0
        timed == [self EXCEPT !.total_time = SaveTotalTime(self)]
    IN  SaveEngineTimes(SavePreservedDetails(timed, AircraftOf(timed)),
                        AircraftOf(timed), is_float /\ ~computed)

\* super().save(): the row the database holds for the saved instance.
StoredRow(saved) ==
    IF saved.total_time = None THEN saved
    ELSE [saved EXCEPT !.total_time = StoredTotalTime(saved.total_time)]

(***************************************************************************)
(* FlightForm                                                               *)
(***************************************************************************)

LowerChars ==
    <<"a", "b", "c", "d", "e", "f", "g", "h", "i", "j", "k", "l", "m",
      "n", "o", "p", "q", "r", "s", "t", "u", "v", "w", "x", "y", "z">>

UpperChars ==
    <<"A", "B", "C", "D", "E", "F", "G", "H", "I", "J", "K", "L", "M",
      "N", "O", "P", "Q", "R", "S", "T", "U", "V", "W", "X", "Y", "Z">>

UpperChar(c) ==
    IF \E i \in 1..26 : LowerChars[i] = c
    THEN UpperChars[CHOOSE i \in 1..26 : LowerChars[i] = c]
    ELSE c

\* str.upper()
Upper(s) == [i \in 1..Len(s) |-> UpperChar(s[i])]

\* re.match(r'^[A-Z0-9\-]+$', s)
RegistrationCharsOk(s) ==
    /\ s # <<>>
    /\ \A i \in 1..Len(s) :
          s[i] \in {UpperChars[k] : k \in 1..26} \cup DigitSet \cup {"-"}

\* manual_aircraft_registration = forms.CharField(max_length=10, ...)
RegistrationMaxLength == 10

\* total_hours < 0.1, with total_hours = seconds / 3600: fewer than 360 seconds
MinDurationSeconds == 360

\* cleaned_data.get(name) for a category: the field's cleaned value, or absent
\* (ok = FALSE) when TimeInMinutesField.clean raised.
CleanedCategory(data, name) == TimeInMinutesField_clean(data[name])

\* cleaned_data.get('manual_aircraft_registration') after the field's own
\* cleaning: CharField strips the text; a text over max_length is a field
\* error and the key is absent.
CleanedManualField(data) ==
    LET s == Strip(data.manual_aircraft_registration)
    IN  IF Len(s) > RegistrationMaxLength THEN <<>> ELSE s

\* The fields whose own cleaning fails.
FieldErrors(data) ==
    {c \in Categories : ~CleanedCategory(data, c).ok}
    \cup (IF Len(Strip(data.manual_aircraft_registration)) > RegistrationMaxLength
          THEN {"manual_aircraft_registration"} ELSE {})

\* FlightForm.clean, lines 165-173: the manual registration after clean().
CleanedManual(data) ==
    IF data.aircraft # NoAircraft THEN <<>>
    ELSE Strip(Upper(CleanedManualField(data)))

\* FlightForm.clean, line 212: total_minutes
CleanTotalMinutes(data) ==
    TruncMinutes(ElapsedSeconds(data.departure_time, data.arrival_time))

\* A plausible slip: >= where FlightForm.clean compares with >.
CategoryExceeds_or_equals(data, name) ==
    LET v == CleanedCategory(data, name)
    IN  v.ok /\ v.value # 0 /\ v.value >= CleanTotalMinutes(data)

\* FlightForm.clean, lines 224-275: "if x and x > total_minutes"
CategoryExceeds(data, name) ==
    LET v == CleanedCategory(data, name)
    IN  v.ok /\ v.value # 0 /\ v.value > CleanTotalMinutes(data)

\* The categories FlightForm.clean compares with the total, in its order.
CheckedCategories == CategoryOrder

\* The ValidationError FlightForm.clean raises, "" when it returns: the
\* checks run in the order of the code and the first that fails raises.
FormCleanError(data) ==
    LET manual == CleanedManual(data)
        exceeding == {i \in 1..Len(CheckedCategories) :
                         CategoryExceeds(data, CheckedCategories[i])}
    IN  IF data.aircraft = NoAircraft /\ CleanedManualField(data) = <<>>
        THEN "aircraft_required"
        ELSE IF manual # <<>> /\ Len(manual) < 2 THEN "registration_too_short"
        ELSE IF manual # <<>> /\ ~RegistrationCharsOk(manual)
        THEN "registration_characters"
        ELSE IF ElapsedSeconds(data.departure_time, data.arrival_time) < MinDurationSeconds
        THEN "duration_too_short"
        ELSE IF ElapsedSeconds(data.departure_time, data.arrival_time) > SecondsPerDay
        THEN "duration_too_long"
        ELSE IF exceeding # {}
        THEN CheckedCategories[CHOOSE i \in exceeding : \A j \in exceeding : i <= j]
        ELSE ""

\* Model validation in the form's _post_clean: MinValueValidator(0) on the
\* category fields that were cleaned.
ModelFieldErrors(data) ==
    {c \in Categories : CleanedCategory(data, c).ok /\ CleanedCategory(data, c).value < 0}

\* form.errors: every error the submission collects; the form is valid when
\* there is none.
FormErrors(data) ==
    FieldErrors(data)
    \cup (IF FormCleanError(data) = "" THEN {} ELSE {<<"clean", FormCleanError(data)>>})
    \cup ModelFieldErrors(data)

is_valid(data) == FormErrors(data) = {}

\* construct_instance: the fields of Meta.fields that are model fields are
\* copied from cleaned_data onto the instance; total_time is not among them.
construct_instance(instance, data) ==
    [instance EXCEPT
        !.aircraft = data.aircraft,
        !.departure_aerodrome = data.departure_aerodrome,
        !.arrival_aerodrome = data.arrival_aerodrome,
        !.departure_time = data.departure_time,
        !.arrival_time = data.arrival_time,
        !.single_engine_time = CleanedCategory(data, "single_engine_time").value,
        !.multi_engine_time = CleanedCategory(data, "multi_engine_time").value,
        !.multi_pilot_time = CleanedCategory(data, "multi_pilot_time").value,
        !.night_time = CleanedCategory(data, "night_time").value,
        !.ifr_time = CleanedCategory(data, "ifr_time").value,
        !.pic_time = CleanedCategory(data, "pic_time").value,
        !.copilot_time = CleanedCategory(data, "copilot_time").value,
        !.double_command_time = CleanedCategory(data, "double_command_time").value,
        !.instructor_time = CleanedCategory(data, "instructor_time").value,
        !.simulator_time = CleanedCategory(data, "simulator_time").value]

\* FlightForm.save, lines 130-150: the aircraft data of a valid form.
FormAircraftData(flight, data) ==
    LET ac == AircraftOf(flight)
    IN  IF data.aircraft # NoAircraft
        THEN LET kept == [flight EXCEPT
                            !.aircraft_registration = ac.registration,
                            !.aircraft_manufacturer = ac.manufacturer,
                            !.aircraft_type = ac.type,
                            !.aircraft_engine_type = ac.engine_type]
             IN  IF ac.engine_type = "SINGLE" /\ kept.single_engine_time = 0
                 THEN [kept EXCEPT !.single_engine_time =
                                       TotalTimeMinutes(kept.total_time, FALSE)]
                 ELSE IF ac.engine_type = "MULTI" /\ kept.multi_engine_time = 0
                 THEN [kept EXCEPT !.multi_engine_time =
                                       TotalTimeMinutes(kept.total_time, FALSE)]
                 ELSE kept
        ELSE IF CleanedManual(data) # <<>>
        THEN [flight EXCEPT !.aircraft = NoAircraft,
                            !.aircraft_registration = CleanedManual(data)]
        ELSE flight

\* FlightForm.save with commit=True on a valid form, up to the database
\* write: the instance in memory after flight.save().
FlightForm_save(instance, data) ==
    Flight_save(FormAircraftData(construct_instance(instance, data), data), FALSE)

(***************************************************************************)
(* Operations on the store                                                  *)
(***************************************************************************)

\* Bounds of the model: the rows each table can hold.
MaxAircraft == 2

MaxFlights == 1

AircraftIds == 1..MaxAircraft

FlightIds == 1..MaxFlights

NoForm == [op |-> "none"]

NoCalc == [op |-> "none"]

EmptyTable == [k \in {} |-> 0]

\* The table with row put at key pk.
Put(table, pk, row) ==
    [k \in DOMAIN table \cup {pk} |-> IF k = pk THEN row ELSE table[k]]

\* The table without key pk.
Remove(table, pk) == [k \in DOMAIN table \ {pk} |-> table[k]]

\* The next primary key.  A key freed by a deletion is handed out again: no
\* operation reads the value of a key, and a deleted aircraft leaves no
\* reference behind.
NextKey(table, ids) == CHOOSE k \in ids \ DOMAIN table : \A j \in ids \ DOMAIN table : k <= j

\* AircraftForm.clean_registration
clean_registration(registration) == Strip(Upper(registration))

\* AircraftCreateView: a valid AircraftForm is saved as a new row; the
\* registration is unique.
AircraftCreate(row) ==
    /\ DOMAIN aircraft # AircraftIds
    /\ LET reg == clean_registration(Strip(row.registration))
       IN  /\ reg # <<>>
           /\ \A k \in DOMAIN aircraft : aircraft[k].registration # reg
           /\ aircraft' = Put(aircraft, NextKey(aircraft, AircraftIds),
                              [row EXCEPT !.registration = reg])
    /\ form' = NoForm
    /\ calc' = NoCalc
    /\ UNCHANGED <<flights, half_even>>

\* AircraftUpdateView: a valid AircraftForm is saved over the row; no flight
\* is touched.
AircraftUpdate(pk, row) ==
    /\ pk \in DOMAIN aircraft
    /\ LET reg == clean_registration(Strip(row.registration))
       IN  /\ reg # <<>>
           /\ \A k \in DOMAIN aircraft \ {pk} : aircraft[k].registration # reg
           /\ aircraft' = [aircraft EXCEPT ![pk] = [row EXCEPT !.registration = reg]]
    /\ form' = NoForm
    /\ calc' = NoCalc
    /\ UNCHANGED <<flights, half_even>>

\* A plausible slip: the reference cleared and the preserved details left
\* as they were.
DetachFlight_details_kept(flight, ac) ==
    Flight_save([flight EXCEPT !.aircraft = NoAircraft], FALSE)

\* AircraftDeleteView.post, lines 550-556: one flight of the aircraft.
DetachFlight(flight, ac) ==
    Flight_save([flight EXCEPT
                    !.aircraft_registration = ac.registration,
                    !.aircraft_manufacturer = ac.manufacturer,
                    !.aircraft_type = ac.type,
                    !.aircraft_engine_type = ac.engine_type,
                    !.aircraft = NoAircraft],
                FALSE)

\* AircraftDeleteView.post on the store: every flight of the aircraft is
\* detached and saved, then the aircraft is deleted.
DeleteAircraft(pk) ==
    /\ pk \in DOMAIN aircraft
    /\ flights' = [k \in DOMAIN flights |->
                     IF flights[k].aircraft = pk
                     THEN StoredRow(DetachFlight(flights[k], aircraft[pk]))
                     ELSE flights[k]]
    /\ aircraft' = Remove(aircraft, pk)
    /\ UNCHANGED half_even

\* AircraftDeleteView.post
AircraftDelete(pk) ==
    /\ DeleteAircraft(pk)
    /\ form' = NoForm
    /\ calc' = NoCalc

\* What a FlightForm submission leaves in form: the data, the instance the
\* form was bound to, the errors and the instance in memory after save.
Submission(op, pk, data, instance) ==
    [op |-> op, pk |-> pk, data |-> data, instance |-> instance,
     errors |-> FormErrors(data),
     saved |-> IF is_valid(data) THEN FlightForm_save(instance, data) ELSE instance]

\* the new instance of FlightCreateView.form_valid: form.instance.pilot = user
CreateInstance(user) == [NewFlight EXCEPT !.pilot = user]

\* FlightCreateView.post: FlightForm on a new instance; an invalid form
\* changes nothing.
CreateFlight(user, data) ==
    /\ DOMAIN flights # FlightIds
    /\ data.aircraft \in DOMAIN aircraft \cup {NoAircraft}
    /\ flights' = IF is_valid(data)
                  THEN Put(flights, NextKey(flights, FlightIds),
                           StoredRow(FlightForm_save(CreateInstance(user), data)))
                  ELSE flights
    /\ UNCHANGED <<aircraft, half_even>>

\* FlightUpdateView.post: FlightForm on the stored instance of the user's
\* flight.
UpdateFlight(user, pk, data) ==
    /\ pk \in DOMAIN flights
    /\ flights[pk].pilot = user
    /\ data.aircraft \in DOMAIN aircraft \cup {NoAircraft}
    /\ flights' = IF is_valid(data)
                  THEN [flights EXCEPT ![pk] = StoredRow(FlightForm_save(flights[pk], data))]
                  ELSE flights
    /\ UNCHANGED <<aircraft, half_even>>

FlightCreate(user, data) ==
    /\ CreateFlight(user, data)
    /\ form' = NoForm
    /\ calc' = NoCalc

FlightUpdate(user, pk, data) ==
    /\ UpdateFlight(user, pk, data)
    /\ form' = NoForm
    /\ calc' = NoCalc

\* FlightDeleteView.post
FlightDelete(user, pk) ==
    /\ pk \in DOMAIN flights
    /\ flights[pk].pilot = user
    /\ flights' = Remove(flights, pk)
    /\ form' = NoForm
    /\ calc' = NoCalc
    /\ UNCHANGED <<aircraft, half_even>>

\* recalculate_flight_times, line 28: round(exact_minutes / 60, 2)
RecalculatedTime(flight) == HoursHundredths(exact_flight_minutes(flight))

\* recalculate_flight_times, lines 25-30: abs(float(old_time) - new_time) > 0.01.
\* On the values a stored total_time and a recalculated one can take the
\* floating-point comparison agrees with the exact one.
NeedsUpdate(flight) ==
    /\ flight.departure_time # None /\ flight.arrival_time # None
    /\ LET d == flight.total_time - RecalculatedTime(flight)
       IN  d > 1 \/ d < -1

\* recalculate_flight_times, lines 41-43: the float is assigned and the
\* flight saved in full.
RecalculateFlight(flight) ==
    Flight_save([flight EXCEPT !.total_time = RecalculatedTime(flight)], TRUE)

\* recalculate_flight_times, Command.handle: the flights after the run
RecalculatedFlights(dry_run) ==
    [k \in DOMAIN flights |->
        IF ~dry_run /\ NeedsUpdate(flights[k])
        THEN StoredRow(RecalculateFlight(flights[k]))
        ELSE flights[k]]

\* recalculate_flight_times, Command.handle: updated_count
updated_count == Cardinality({k \in DOMAIN flights : NeedsUpdate(flights[k])})

\* recalculate_flight_times: Command.handle over every flight
Recalculate(dry_run) ==
    /\ flights' = RecalculatedFlights(dry_run)
    /\ form' = NoForm
    /\ calc' = NoCalc
    /\ UNCHANGED <<aircraft, half_even>>

(***************************************************************************)
(* The logbook: every operation, from an empty database                     *)
(***************************************************************************)

F_GABC == <<"F", "-", "G", "A", "B", "C">>

F_GDEF == <<"F", "-", "G", "D", "E", "F">>

\* AircraftForm submissions: the two aircraft of logbook/tests.py, the
\* registration typed in lower case once, and a re-engined F-GABC with no
\* manufacturer.
AircraftInputs ==
    {[registration |-> <<"f", "-", "g", "a", "b", "c">>, type |-> "Cessna 152",
      manufacturer |-> "Cessna", engine_type |-> "SINGLE"],
     [registration |-> F_GDEF, type |-> "Piper PA-34",
      manufacturer |-> "Piper", engine_type |-> "MULTI"],
     [registration |-> F_GABC, type |-> "Cessna 172",
      manufacturer |-> "", engine_type |-> "MULTI"]}

Pilots == {"alice", "bob"}

\* 10:00:00 as a time of day, in seconds
T1000 == 10 * MinutesPerHour * SecondsPerMinute

Minutes(m) == m * SecondsPerMinute

OneHour == <<"0", "1", ":", "0", "0">>

\* No category entered.
NoCategories == [c \in Categories |-> <<>>]

\* One category entered, the others left empty.
OnlyCategory(name, text) == [NoCategories EXCEPT ![name] = text]

\* A FlightForm submission: the fields the computations read.
FormData(ac, manual, arrival_aerodrome, departure_time, arrival_time, cats) ==
    [aircraft |-> ac, manual_aircraft_registration |-> manual,
     departure_aerodrome |-> "LFPB", arrival_aerodrome |-> arrival_aerodrome,
     departure_time |-> departure_time, arrival_time |-> arrival_time,
     night_time |-> cats["night_time"], ifr_time |-> cats["ifr_time"],
     single_engine_time |-> cats["single_engine_time"],
     multi_engine_time |-> cats["multi_engine_time"],
     pic_time |-> cats["pic_time"], copilot_time |-> cats["copilot_time"],
     multi_pilot_time |-> cats["multi_pilot_time"],
     double_command_time |-> cats["double_command_time"],
     instructor_time |-> cats["instructor_time"],
     simulator_time |-> cats["simulator_time"]]

\* The submissions of the logbook, each a flight from 10:00.  Cross-country
\* flights of 2, 50 or 60 minutes with a listed aircraft or a typed
\* registration and no category entered; local flights of 50 or 60 minutes
\* with one hour of night or of PIC entered.
LogbookData ==
    {FormData(ac, manual, "LFPO", T1000, T1000 + Minutes(m), NoCategories) :
        ac \in AircraftIds \cup {NoAircraft},
        manual \in {<<>>, <<"n", "1", "x">>},
        m \in {2, 50, 60}}
    \cup
    {FormData(ac, <<>>, "LFPB", T1000, T1000 + Minutes(m), OnlyCategory(name, OneHour)) :
        ac \in AircraftIds \cup {NoAircraft},
        m \in {50, 60},
        name \in {"night_time", "pic_time"}}

Init ==
    /\ aircraft = EmptyTable
    /\ flights = EmptyTable
    /\ half_even \in BOOLEAN
    /\ form = NoForm
    /\ calc = NoCalc

Next ==
    \/ \E row \in AircraftInputs : AircraftCreate(row)
    \/ \E pk \in AircraftIds, row \in AircraftInputs : AircraftUpdate(pk, row)
    \/ \E pk \in AircraftIds : AircraftDelete(pk)
    \/ \E user \in Pilots, data \in LogbookData : FlightCreate(user, data)
    \/ \E user \in Pilots, pk \in FlightIds, data \in LogbookData :
          FlightUpdate(user, pk, data)
    \/ \E user \in Pilots, pk \in FlightIds : FlightDelete(user, pk)
    \/ \E dry_run \in BOOLEAN : Recalculate(dry_run)

Spec == Init /\ [][Next]_vars

(***************************************************************************)
(* One FlightForm submission, on a new flight or on a stored one            *)
(***************************************************************************)

\* The two aircraft of logbook/tests.py, as AircraftCreate stores them.
FormAircraft ==
    Put(Put(EmptyTable, 1,
            [registration |-> F_GABC, type |-> "Cessna 152",
             manufacturer |-> "Cessna", engine_type |-> "SINGLE"]),
        2, [registration |-> F_GDEF, type |-> "Piper PA-34",
            manufacturer |-> "Piper", engine_type |-> "MULTI"])

N1X == <<"n", "1", "x">>

\* The flights already stored when the form is an edit: created through the
\* form, of 120 or 50 minutes, on either aircraft or with a typed registration.
SeedData ==
    {FormData(ac, N1X, "LFPO", T1000, T1000 + Minutes(m), NoCategories) :
        ac \in {NoAircraft, 1, 2}, m \in {50, 120}}

\* The texts of the category that varies: an hour, fifty minutes, a negative
\* number of minutes, and no clock text at all.
CategoryTexts ==
    {OneHour, <<"0", "0", ":", "5", "0">>, <<"0", ":", "-", "5">>, <<"1", "h">>}

\* The arrival of a flight from 10:00:00, in seconds after it: 2, 50 and 60
\* minutes, 59 minutes 30 seconds, and 15 hours (01:00 of the next day).
SubmitElapsed == {120, 3000, 3570, 3600, 54000}

\* The submissions: any aircraft choice with any typed registration and no
\* category; and any aircraft with one category entered.
SubmitData ==
    {FormData(ac, manual, "LFPO", T1000, (T1000 + e) % SecondsPerDay, NoCategories) :
        ac \in {NoAircraft, 1, 2},
        manual \in {<<>>, N1X, <<"x">>, <<"n", " ", "1">>},
        e \in SubmitElapsed}
    \cup
    {FormData(ac, N1X, "LFPO", T1000, T1000 + e, OnlyCategory(name, OneHour)) :
        ac \in {NoAircraft, 1, 2}, e \in {3000, 3570, 3600}, name \in Categories}
    \cup
    {FormData(ac, N1X, "LFPO", T1000, T1000 + 3000, OnlyCategory("night_time", text)) :
        ac \in {NoAircraft, 1, 2}, text \in CategoryTexts}

FormInit ==
    /\ aircraft = FormAircraft
    /\ half_even \in BOOLEAN
    /\ flights \in {EmptyTable}
          \cup {Put(EmptyTable, 1, StoredRow(FlightForm_save(CreateInstance("alice"), d))) :
                  d \in SeedData}
    /\ form \in {[op |-> "input", user |-> "alice", data |-> d] : d \in SubmitData}
    /\ calc = NoCalc

\* FlightCreateView.post, the submission kept in form.
SubmitCreate ==
    /\ form.op = "input"
    /\ CreateFlight(form.user, form.data)
    /\ form' = Submission("create", NextKey(flights, FlightIds), form.data,
                          CreateInstance(form.user))
    /\ calc' = NoCalc

\* FlightUpdateView.post, the submission kept in form.
SubmitUpdate ==
    /\ form.op = "input"
    /\ \E pk \in DOMAIN flights :
          /\ UpdateFlight(form.user, pk, form.data)
          /\ form' = Submission("edit", pk, form.data, flights[pk])
    /\ calc' = NoCalc

FormNext == SubmitCreate \/ SubmitUpdate

FormSpec == FormInit /\ [][FormNext]_vars

\* A submission has been handled.
Submitted == form.op \in {"create", "edit"}

\* The handled submission was valid and the flight saved.
Accepted == Submitted /\ form.errors = {}

(***************************************************************************)
(* The duration of a flight between two times of day                        *)
(***************************************************************************)

\* Departures: midnight, 10:00:00, 23:00:00, 23:00:30 and 23:59:59.
DurationDepartures == {0, T1000, 82800, 82830, 86399}

\* Arrivals: every minute of the day, on the minute and 30 or 59 seconds
\* past it.
DurationArrivals ==
    {Minutes(m) + sec : m \in 0..(MinutesPerDay - 1), sec \in {0, 30, 59}}

\* A flight with the two times, as Flight.save and the form see it.
TimedFlight(departure_time, arrival_time) ==
    [NewFlight EXCEPT !.departure_time = departure_time,
                      !.arrival_time = arrival_time]

TimedData(departure_time, arrival_time) ==
    FormData(NoAircraft, N1X, "LFPO", departure_time, arrival_time, NoCategories)

DurationInit ==
    /\ aircraft = EmptyTable
    /\ flights = EmptyTable
    /\ half_even \in BOOLEAN
    /\ form = NoForm
    /\ calc \in {[op |-> "duration", done |-> FALSE, departure_time |-> d,
                  arrival_time |-> a, exact |-> 0, clean |-> 0, rounded |-> 0,
                  clean_error |-> ""] :
                    d \in DurationDepartures, a \in DurationArrivals}

\* The duration of the flight in each place that computes it:
\* exact_flight_minutes, FlightForm.clean's total_minutes and its duration
\* check, and Flight.save's total_minutes_rounded.
ComputeDuration ==
    /\ calc.op = "duration" /\ ~calc.done
    /\ calc' = [calc EXCEPT
                  !.done = TRUE,
                  !.exact = exact_flight_minutes(
                               TimedFlight(calc.departure_time, calc.arrival_time)),
                  !.clean = CleanTotalMinutes(
                               TimedData(calc.departure_time, calc.arrival_time)),
                  !.rounded = RoundMinutes(
                                 ElapsedSeconds(calc.departure_time, calc.arrival_time)),
                  !.clean_error = FormCleanError(
                                     TimedData(calc.departure_time, calc.arrival_time))]
    /\ UNCHANGED <<aircraft, flights, half_even, form>>

DurationNext == ComputeDuration

DurationSpec == DurationInit /\ [][DurationNext]_vars

(***************************************************************************)
(* The cross-country property of a flight                                   *)
(***************************************************************************)

Aerodromes == {"LFPB", "LFPO", "LFST", "lfpb"}

\* Legacy cross_country_time values: rows written before the field was
\* retired keep a positive number of minutes.
LegacyCrossCountryTimes == {0, 30, 90, 150}

CrossCountryInit ==
    /\ aircraft = EmptyTable
    /\ flights = EmptyTable
    /\ half_even \in BOOLEAN
    /\ form = NoForm
    /\ calc \in {[op |-> "cross_country", done |-> FALSE, result |-> FALSE,
                  flight |-> [NewFlight EXCEPT !.departure_aerodrome = dep,
                                               !.arrival_aerodrome = arr,
                                               !.cross_country_time = legacy,
                                               !.night_time = night]] :
                    dep \in Aerodromes, arr \in Aerodromes,
                    legacy \in LegacyCrossCountryTimes, night \in {0, 60}}

ComputeCrossCountry ==
    /\ calc.op = "cross_country" /\ ~calc.done
    /\ calc' = [calc EXCEPT !.done = TRUE, !.result = is_cross_country(calc.flight)]
    /\ UNCHANGED <<aircraft, flights, half_even, form>>

CrossCountryNext == ComputeCrossCountry

CrossCountrySpec == CrossCountryInit /\ [][CrossCountryNext]_vars

(***************************************************************************)
(* Minutes to clock text and back                                           *)
(***************************************************************************)

\* Bound of the model: the largest number of minutes formatted (6000 minutes
\* are 100 hours, the first three-digit hour).
MaxClockMinutes == 6100

ClockInit ==
    /\ aircraft = EmptyTable
    /\ flights = EmptyTable
    /\ half_even = TRUE
    /\ form = NoForm
    /\ calc \in {[op |-> "clock", done |-> FALSE, minutes |-> m,
                  field_text |-> <<>>, filter_text |-> <<>>,
                  field_parsed |-> ValueError, filter_parsed |-> ValueError] :
                    m \in 0..MaxClockMinutes}

\* prepare_value and minutes_to_time, and TimeInMinutesField.clean on the
\* text of each.
FormatAndParse ==
    /\ calc.op = "clock" /\ ~calc.done
    /\ calc' = [calc EXCEPT
                  !.done = TRUE,
                  !.field_text = prepare_value(calc.minutes),
                  !.filter_text = minutes_to_time(calc.minutes),
                  !.field_parsed = TimeInMinutesField_clean(prepare_value(calc.minutes)),
                  !.filter_parsed = TimeInMinutesField_clean(minutes_to_time(calc.minutes))]
    /\ UNCHANGED <<aircraft, flights, half_even, form>>

ClockNext == FormatAndParse

ClockSpec == ClockInit /\ [][ClockNext]_vars

(***************************************************************************)
(* Properties                                                               *)
(***************************************************************************)

\* C1.  Every stored flight has each of its ten category durations at most
\* the flight's duration in minutes, computed from its stored departure and
\* arrival times.
C1_CategoriesWithinDuration ==
    \A k \in DOMAIN flights : \A c \in Categories :
        flights[k][c] <= exact_flight_minutes(flights[k])

\* The engine times the specification derives from an engine type and a
\* total in minutes.
DerivedEngineTime(engine_type, total) ==
    IF engine_type = "SINGLE" THEN [single |-> total, multi |-> 0]
    ELSE IF engine_type = "MULTI" THEN [single |-> 0, multi |-> total]
    ELSE [single |-> 0, multi |-> 0]

\* C2.  After Flight.save the engine times are those derived from the
\* aircraft's engine type and the flight's duration in minutes: the whole
\* duration on the aircraft's side, 0 on the other, both 0 without aircraft.
C2_EngineTimeIsTotalMinutes ==
    Accepted =>
        LET f == form.saved
            derived == DerivedEngineTime(AircraftOf(f).engine_type,
                                         exact_flight_minutes(f))
        IN  /\ f.single_engine_time = derived.single
            /\ f.multi_engine_time = derived.multi

\* C3.  The duration of a saved flight is the same number of minutes in
\* FlightForm.clean's total, in the stored total_time (hours times 60), in
\* the minutes Flight.save derives the engine time from, and in
\* exact_flight_minutes.
C3_OneDurationEverywhere ==
    Accepted =>
        LET f == form.saved
            m == CleanTotalMinutes(form.data)
        IN  /\ f.total_time * MinutesPerHour = 100 * m
            /\ TotalTimeMinutes(f.total_time, FALSE) = m
            /\ exact_flight_minutes(f) = m

DurationDone == calc.op = "duration" /\ calc.done

\* C4, as claimed.  The computed duration of a flight with both times is at
\* least one minute, also when departure and arrival are the same time.
C4_AtLeastOneMinute == DurationDone => calc.exact >= 1

\* C4, amended.  The computed duration is a natural number; it is at least
\* six minutes (so at least one) for every pair of times FlightForm.clean
\* accepts; for a departure equal to the arrival it is 0, and
\* FlightForm.clean rejects the flight as too short.
C4_AtLeastOneMinuteWhenAccepted ==
    DurationDone =>
        /\ calc.exact \in Nat
        /\ calc.clean_error = "" => calc.exact >= 6
        /\ calc.departure_time = calc.arrival_time =>
              calc.exact = 0 /\ calc.clean_error = "duration_too_short"

C4_Witness ==
    DurationDone /\ calc.departure_time = calc.arrival_time /\ calc.exact = 0

\* C5.  With the arrival strictly before the departure the duration is that
\* of an arrival 24 hours later: 1440 minus the minutes from arrival to
\* departure (what is left of a minute dropped), 120 for 23:00 to 01:00,
\* between 0 and 1439.  Otherwise nothing is added: the duration is the
\* minutes from departure to arrival.  FlightForm.clean's total agrees.
C5_OvernightRollover ==
    DurationDone =>
        LET d == calc.departure_time
            a == calc.arrival_time
        IN  /\ calc.clean = calc.exact
            /\ calc.exact >= 0 /\ calc.exact <= MinutesPerDay - 1
            /\ a < d =>
                  /\ calc.exact * 60 <= MinutesPerDay * 60 - (d - a)
                  /\ MinutesPerDay * 60 - (d - a) < (calc.exact + 1) * 60
                  /\ (d - a) % 60 = 0 => calc.exact = MinutesPerDay - (d - a) \div 60
            /\ a >= d => calc.exact = (a - d) \div 60
            /\ (d = 23 * 3600 /\ a = 3600) => calc.exact = 120

C5_Witness ==
    /\ DurationDone
    /\ calc.departure_time = 23 * 3600 /\ calc.arrival_time = 3600
    /\ calc.exact = 120

\* C6.  The duration is the elapsed seconds divided by 60 and rounded to
\* the nearest minute, an exact half rounded up, in exact_flight_minutes
\* and in Flight.save alike.
C6_RoundedHalfUp ==
    DurationDone =>
        LET nearest == (ElapsedSeconds(calc.departure_time, calc.arrival_time) + 30) \div 60
        IN  calc.exact = nearest /\ calc.rounded = nearest

\* The submitted minutes of a category, and the total of the submitted times.
Entered(name) == TimeInMinutesField_clean(form.data[name])

SubmittedTotal ==
    ElapsedSeconds(form.data.departure_time, form.data.arrival_time) \div 60

\* The errors FlightForm.clean raises before it compares the categories.
EarlierErrors ==
    {<<"clean", e>> : e \in {"aircraft_required", "registration_too_short",
                             "registration_characters", "duration_too_short",
                             "duration_too_long"}}

\* Nothing was stored for the submission: no row was added for a new flight,
\* and the flight edited is as it was.
StoreUntouched ==
    IF form.op = "create" THEN form.pk \notin DOMAIN flights
    ELSE flights[form.pk] = form.instance

\* C7.  For each of the ten categories: a submission whose minutes in the
\* category exceed the total is rejected (nothing is stored; unless an
\* earlier check of clean failed, the error is a category's), and a
\* submission whose minutes equal the total is not rejected for that category.
C7_CategoryAboveTotalRejected ==
    Submitted =>
        \A c \in Categories :
            /\ (Entered(c).ok /\ Entered(c).value > SubmittedTotal) =>
                  /\ form.errors # {}
                  /\ StoreUntouched
                  /\ form.errors \cap EarlierErrors = {} =>
                        \E c2 \in Categories :
                            /\ <<"clean", c2>> \in form.errors
                            /\ Entered(c2).value > SubmittedTotal
            /\ (Entered(c).ok /\ Entered(c).value = SubmittedTotal) =>
                  <<"clean", c>> \notin form.errors

C7_Witness ==
    /\ Submitted
    /\ Entered("single_engine_time").value > SubmittedTotal
    /\ <<"clean", "single_engine_time">> \in form.errors
    /\ StoreUntouched

\* The engine times a user can enter.
EngineTexts == {<<>>, OneHour, <<"0", "2", ":", "0", "0">>}

\* C8.  A submission that differs from the one handled only in the entered
\* single-engine and multi-engine times has the same outcome and, when
\* accepted, the same engine times after save.
C8_EnteredEngineTimesIgnored ==
    Submitted =>
        \A se \in EngineTexts, me \in EngineTexts :
            LET other == [form.data EXCEPT !.single_engine_time = se,
                                           !.multi_engine_time = me]
            IN  /\ is_valid(other) <=> form.errors = {}
                /\ (is_valid(other) /\ form.errors = {}) =>
                      LET saved == FlightForm_save(form.instance, other)
                      IN  /\ saved.single_engine_time = form.saved.single_engine_time
                          /\ saved.multi_engine_time = form.saved.multi_engine_time

CrossCountryDone == calc.op = "cross_country" /\ calc.done

ClockDone == calc.op = "clock" /\ calc.done

\* C10.  Formatting a number of minutes as clock text, by
\* TimeInMinutesField.prepare_value or by the minutes_to_time filter, and
\* parsing the text with TimeInMinutesField.clean gives the number back.
C10_ClockRoundTrip ==
    ClockDone =>
        /\ calc.field_parsed = [ok |-> TRUE, value |-> calc.minutes]
        /\ calc.filter_parsed = [ok |-> TRUE, value |-> calc.minutes]

C10_Witness ==
    /\ ClockDone
    /\ calc.minutes >= 6000
    /\ Len(calc.field_text) = 6
    /\ calc.field_parsed.value = calc.minutes

(***************************************************************************)
(* TimeInMinutesField.clean on typed text                                   *)
(***************************************************************************)

\* The characters typed into a time field.
ParseAlphabet == {"0", "1", "5", ":", "-", "x"}

\* Longer texts of interest: clock texts, blanks, a sign, an underscore,
\* three components, a bare number of minutes.
ParseLongTexts ==
    { <<"0", "0", ":", "0", "0">>, <<"0", "1", ":", "3", "0">>,
      <<"1", ":", "2", ":", "3">>, <<" ", "1", ":", "3", "0">>,
      <<"1", " ", ":", " ", "5">>, <<"1", "_", "0", ":", "0", "0">>,
      <<"+", "1", ":", "0", "5">>, <<"-", "1", ":", "3", "0">>,
      <<"9", "0">>, <<"1", "2", "0">>, <<"1", ".", "5">> }

ParseTexts ==
    {<<>>} \cup {<<a>> : a \in ParseAlphabet}
           \cup {<<a, b>> : a \in ParseAlphabet, b \in ParseAlphabet}
           \cup {<<a, b, c>> : a \in ParseAlphabet, b \in ParseAlphabet, c \in ParseAlphabet}
           \cup ParseLongTexts

ParseInit ==
    /\ aircraft = EmptyTable
    /\ flights = EmptyTable
    /\ half_even = TRUE
    /\ form = NoForm
    /\ calc \in {[op |-> "parse", done |-> FALSE, text |-> t, result |-> ValueError] :
                    t \in ParseTexts}

\* TimeInMinutesField.clean on the text.
ParseText ==
    /\ calc.op = "parse" /\ ~calc.done
    /\ calc' = [calc EXCEPT !.done = TRUE,
                            !.result = TimeInMinutesField_clean(calc.text)]
    /\ UNCHANGED <<aircraft, flights, half_even, form>>

ParseNext == ParseText

ParseSpec == ParseInit /\ [][ParseNext]_vars

(***************************************************************************)
(* The reports over a pilot's flights                                       *)
(***************************************************************************)

RECURSIVE SumSeq(_)
\* sum() of a sequence of integers
SumSeq(s) == IF s = <<>> THEN 0 ELSE Head(s) + SumSeq(Tail(s))

RECURSIVE KeysInOrder(_)
\* The keys of a table, ascending.
KeysInOrder(keys) ==
    IF keys = {} THEN <<>>
    ELSE LET k == CHOOSE x \in keys : \A y \in keys : x <= y
         IN  <<k>> \o KeysInOrder(keys \ {k})

\* Flight.objects.filter(pilot=user), user.flights.all(): the pilot's rows,
\* in the order the queryset yields them (the order of the keys here; the
\* date the rows are ordered by is not among the fields kept).
UserFlights(user) ==
    LET keys == KeysInOrder({k \in DOMAIN flights : flights[k].pilot = user})
    IN  [i \in 1..Len(keys) |-> flights[keys[i]]]

\* sum(flight.exact_flight_minutes for flight in rows)
SumExactMinutes(rows) ==
    SumSeq([i \in 1..Len(rows) |-> exact_flight_minutes(rows[i])])

\* A plausible slip: the total summed from the stored total_time.
total_flight_hours_from_total_time(user) ==
    SumSeq([i \in 1..Len(UserFlights(user)) |->
               TotalTimeMinutes(UserFlights(user)[i].total_time, FALSE)])

\* PilotProfile.total_flight_hours, shown by the dashboard: total_minutes / 60.
\* Every total in hours is kept as its number of minutes, the numerator of
\* the division by 60 that the code performs last.
total_flight_hours(user) == SumExactMinutes(UserFlights(user))

\* FlightListView.get_context_data with no filter set: total_hours
FlightListView_total_hours(user) == SumExactMinutes(UserFlights(user))

\* charts_view: total_hours
charts_view_total_hours(user) == SumExactMinutes(UserFlights(user))

\* minutes_to_hhmm of export_pdf and export_csv
minutes_to_hhmm(minutes) == IF minutes = 0 THEN ZeroClock ELSE ClockText(minutes)

\* export_csv: the 'Total Hours' row
export_csv_total(user) == minutes_to_hhmm(SumExactMinutes(UserFlights(user)))

\* export_pdf: 'Total Flight Time:' of the summary
export_pdf_total(user) == minutes_to_hhmm(SumExactMinutes(UserFlights(user)))

SIM == <<"S", "I", "M">>

\* A plausible slip: the preserved registration not consulted.
UsageGroup_without_preserved(flight) ==
    IF flight.aircraft # NoAircraft
    THEN [registration |-> AircraftOf(flight).registration,
          manufacturer |-> AircraftOf(flight).manufacturer,
          type |-> AircraftOf(flight).type]
    ELSE [registration |-> SIM, manufacturer |-> "Simulator", type |-> "SIM"]

\* calculate_aircraft_usage_accurate, lines 71-82: the group of a flight
UsageGroup(flight) ==
    IF flight.aircraft # NoAircraft
    THEN [registration |-> AircraftOf(flight).registration,
          manufacturer |-> AircraftOf(flight).manufacturer,
          type |-> AircraftOf(flight).type]
    ELSE IF flight.aircraft_registration # <<>>
    THEN [registration |-> flight.aircraft_registration,
          manufacturer |-> flight.aircraft_manufacturer,
          type |-> flight.aircraft_type]
    ELSE [registration |-> SIM, manufacturer |-> "Simulator", type |-> "SIM"]

\* calculate_aircraft_usage_accurate, lines 84-89: the flight added to the
\* totals of its registration, a new entry last.  total_hours is kept in
\* minutes.
AddToTotals(totals, flight) ==
    LET g == UsageGroup(flight)
        m == exact_flight_minutes(flight)
    IN  IF \E i \in 1..Len(totals) : totals[i].registration = g.registration
        THEN [i \in 1..Len(totals) |->
                IF totals[i].registration = g.registration
                THEN [registration |-> g.registration,
                      manufacturer |-> g.manufacturer, type |-> g.type,
                      total_hours |-> totals[i].total_hours + m,
                      flight_count |-> totals[i].flight_count + 1]
                ELSE totals[i]]
        ELSE Append(totals, [registration |-> g.registration,
                             manufacturer |-> g.manufacturer, type |-> g.type,
                             total_hours |-> m, flight_count |-> 1])

RECURSIVE aircraft_totals(_)
\* calculate_aircraft_usage_accurate, lines 70-89: the loop over the queryset
aircraft_totals(rows) ==
    IF rows = <<>> THEN <<>>
    ELSE AddToTotals(aircraft_totals(SubSeq(rows, 1, Len(rows) - 1)), rows[Len(rows)])

\* result.sort(key=lambda x: x['total_hours'], reverse=True): the orders
\* the entries can come out in, largest total_hours first.  Entries with the
\* same minutes come in either order: their floating-point sums of hours
\* can differ in the last bit, and the sort orders by those.
SortedByHours(result) ==
    {sorted \in {[i \in 1..Len(result) |-> result[p[i]]] : p \in Permutations(1..Len(result))} :
        \A i \in 1..(Len(sorted) - 1) : sorted[i].total_hours >= sorted[i + 1].total_hours}

\* result[:limit] if limit else result, for limit None or a number >= 0
Limited(result, limit) ==
    IF limit # None /\ limit # 0
    THEN SubSeq(result, 1, IF limit < Len(result) THEN limit ELSE Len(result))
    ELSE result

\* calculate_aircraft_usage_accurate(flights_queryset, limit): the lists it
\* can return
calculate_aircraft_usage_accurate(rows, limit) ==
    {Limited(sorted, limit) : sorted \in SortedByHours(aircraft_totals(rows))}

\* Flight.get_pilot_role_display
get_pilot_role_display(self) ==
    IF self.pic_time > 0 THEN "PIC"
    ELSE IF self.copilot_time > 0 THEN "SIC"
    ELSE IF self.instructor_time > 0 THEN "DUAL"
    ELSE IF self.multi_pilot_time > 0 THEN "MULTI"
    ELSE IF self.simulator_time > 0 THEN "SIM"
    ELSE "PIC"

\* export_pdf: the Role column
export_pdf_role(flight) ==
    IF flight.pic_time > 0 THEN "PIC"
    ELSE IF flight.copilot_time > 0 THEN "SIC"
    ELSE IF flight.instructor_time > 0 THEN "Dual"
    ELSE "Std"

\* charts_view: 'conditions' of a flight
charts_view_conditions(flight) ==
    IF flight.pic_time > 0 THEN "PIC"
    ELSE IF flight.copilot_time > 0 THEN "Co-Pilot"
    ELSE IF flight.instructor_time > 0 THEN "Instructor"
    ELSE IF flight.multi_pilot_time > 0 THEN "Multi-Pilot"
    ELSE IF flight.simulator_time > 0 THEN "Simulator"
    ELSE "Standard"

\* sum(flight.pic_time / 60 for flight in rows if flight.pic_time > 0), in
\* minutes
SumPicTime(rows) ==
    SumSeq([i \in 1..Len(rows) |-> IF rows[i].pic_time > 0 THEN rows[i].pic_time ELSE 0])

\* A plausible slip: solo time counted only on flights with nobody else at
\* the controls.
total_solo_hours_alone(user) ==
    SumPicTime(SelectSeq(UserFlights(user),
                         LAMBDA f : f.copilot_time = 0 /\ f.instructor_time = 0))

\* PilotProfile.total_solo_hours
total_solo_hours(user) == SumPicTime(UserFlights(user))

\* PilotProfile.total_pic_hours
total_pic_hours(user) == SumPicTime(UserFlights(user))

\* charts_view: 'solo_hours', Sum('pic_time') / 60
charts_view_solo_hours(user) ==
    SumSeq([i \in 1..Len(UserFlights(user)) |-> UserFlights(user)[i].pic_time])

\* Bound of the reports: the flights in the logbook reported on.
MaxReportFlights == 3

FiftyMinutes == <<"0", "0", ":", "5", "0">>

\* The submissions the reported flights were created with: from 10:00, on a
\* listed aircraft or with a typed registration, with the category that
\* makes each pilot role, and PIC time together with instructor time.
ReportData ==
    {FormData(1, <<>>, "LFPO", T1000, T1000 + Minutes(60), OnlyCategory("pic_time", OneHour)),
     FormData(1, <<>>, "LFPB", T1000, T1000 + Minutes(50),
              [NoCategories EXCEPT !["pic_time"] = FiftyMinutes,
                                   !["instructor_time"] = FiftyMinutes]),
     FormData(2, <<>>, "LFPO", T1000, T1000 + Minutes(120), OnlyCategory("copilot_time", OneHour)),
     FormData(2, <<>>, "LFPO", T1000, T1000 + Minutes(60), OnlyCategory("instructor_time", OneHour)),
     FormData(NoAircraft, N1X, "LFPO", T1000, T1000 + Minutes(60),
              OnlyCategory("multi_pilot_time", OneHour)),
     FormData(NoAircraft, N1X, "LFPO", T1000, T1000 + Minutes(50), NoCategories)}

\* A row from before the preserved aircraft fields existed, with no
\* aircraft: half an hour in a simulator.
LegacySimulatorRow(user) ==
    [NewFlight EXCEPT !.pilot = user,
                      !.departure_time = T1000, !.arrival_time = T1000 + Minutes(30),
                      !.departure_aerodrome = "LFPB", !.arrival_aerodrome = "LFPB",
                      !.total_time = 50, !.simulator_time = 30]

\* The rows a logbook can hold: flights saved through the form, a flight
\* whose aircraft F-GABC was deleted afterwards, and a legacy row.
ReportRows ==
    {StoredRow(FlightForm_save(CreateInstance("alice"), d)) : d \in ReportData}
    \cup {StoredRow(DetachFlight(
              FlightForm_save(CreateInstance("alice"),
                              FormData(1, <<>>, "LFPO", T1000, T1000 + Minutes(60), NoCategories)),
              FormAircraft[1]))}
    \cup {LegacySimulatorRow(u) : u \in Pilots}
    \cup {StoredRow(FlightForm_save(CreateInstance("bob"),
              FormData(1, <<>>, "LFPO", T1000, T1000 + Minutes(60), OnlyCategory("pic_time", OneHour))))}

\* The limits the callers pass: none (charts), and a number.
UsageLimits == {None, 0, 1, 2}

NoReport ==
    [op |-> "report", done |-> FALSE, user |-> "", limit |-> None,
     dashboard_total |-> 0, list_total |-> 0, charts_total |-> 0,
     csv_total |-> <<>>, pdf_total |-> <<>>, usage |-> <<>>, roles |-> <<>>,
     solo |-> 0, pic |-> 0, charts_solo |-> 0]

ReportInit ==
    /\ aircraft = FormAircraft
    /\ half_even = TRUE
    /\ \E n \in 1..MaxReportFlights :
          flights \in [1..n -> ReportRows]
    /\ form = NoForm
    /\ calc \in {[NoReport EXCEPT !.user = u, !.limit = l] :
                    u \in Pilots, l \in UsageLimits}

\* The dashboard, the flight list, the charts and the exports of the user.
ComputeReport ==
    /\ calc.op = "report" /\ ~calc.done
    /\ LET rows == UserFlights(calc.user)
       IN  \E usage \in calculate_aircraft_usage_accurate(rows, calc.limit) :
           calc' = [calc EXCEPT
                      !.done = TRUE,
                      !.dashboard_total = total_flight_hours(calc.user),
                      !.list_total = FlightListView_total_hours(calc.user),
                      !.charts_total = charts_view_total_hours(calc.user),
                      !.csv_total = export_csv_total(calc.user),
                      !.pdf_total = export_pdf_total(calc.user),
                      !.usage = usage,
                      !.roles = [i \in 1..Len(rows) |->
                                    [display |-> get_pilot_role_display(rows[i]),
                                     pdf |-> export_pdf_role(rows[i]),
                                     charts |-> charts_view_conditions(rows[i])]],
                      !.solo = total_solo_hours(calc.user),
                      !.pic = total_pic_hours(calc.user),
                      !.charts_solo = charts_view_solo_hours(calc.user)]
    /\ UNCHANGED <<aircraft, flights, half_even, form>>

ReportNext == ComputeReport

ReportSpec == ReportInit /\ [][ReportNext]_vars

(***************************************************************************)
(* The aircraft of stored flights edited and deleted                        *)
(***************************************************************************)

\* A plausible slip: the preserved engine type preferred to the aircraft's.
engine_type_preserved_first(self) ==
    IF self.aircraft_engine_type # "" THEN self.aircraft_engine_type
    ELSE IF self.aircraft # NoAircraft THEN AircraftOf(self).engine_type
    ELSE ""

\* Flight.engine_type
engine_type(self) ==
    IF self.aircraft # NoAircraft THEN AircraftOf(self).engine_type
    ELSE self.aircraft_engine_type

\* Flight.is_single_engine
is_single_engine(self) ==
    IF self.aircraft # NoAircraft THEN AircraftOf(self).engine_type = "SINGLE"
    ELSE self.aircraft_engine_type = "SINGLE"

\* Flight.is_multi_engine
is_multi_engine(self) ==
    IF self.aircraft # NoAircraft THEN AircraftOf(self).engine_type = "MULTI"
    ELSE self.aircraft_engine_type = "MULTI"

\* Bound: the flights stored when the aircraft are edited and deleted.
MaxFleetFlights == 2

\* The flights stored: created through the form by alice on either aircraft
\* or with a typed registration, of 50 or 60 minutes, and one of bob's.
FleetRows ==
    {StoredRow(FlightForm_save(CreateInstance("alice"),
                               FormData(ac, N1X, "LFPO", T1000, T1000 + Minutes(m), NoCategories))) :
        ac \in {NoAircraft, 1, 2}, m \in {50, 60}}
    \cup {StoredRow(FlightForm_save(CreateInstance("bob"),
                               FormData(1, <<>>, "LFPO", T1000, T1000 + Minutes(60), NoCategories)))}

FleetInit ==
    /\ aircraft = FormAircraft
    /\ half_even \in BOOLEAN
    /\ \E n \in 1..MaxFleetFlights : flights \in [1..n -> FleetRows]
    /\ form = NoForm
    /\ calc = NoCalc

\* AircraftDeleteView.post, the deletion kept in calc: the aircraft as it
\* was and the flights before.
RecordedAircraftDelete(pk) ==
    /\ DeleteAircraft(pk)
    /\ form' = NoForm
    /\ calc' = [op |-> "aircraft_delete", pk |-> pk, row |-> aircraft[pk],
                before |-> flights]

FleetNext ==
    \/ \E pk \in AircraftIds, row \in AircraftInputs : AircraftUpdate(pk, row)
    \/ \E pk \in AircraftIds : RecordedAircraftDelete(pk)

FleetSpec == FleetInit /\ [][FleetNext]_vars

(***************************************************************************)
(* Properties of the parsing, the totals and the aircraft                   *)
(***************************************************************************)

ParseDone == calc.op = "parse" /\ calc.done

\* A non-empty run of decimal digits.
IsDigits(s) == s # <<>> /\ \A i \in 1..Len(s) : s[i] \in DigitSet

\* Text of the form H:M, H and M non-negative integers written in digits.
IsClockText(text) ==
    LET parts == Split(text, ":")
    IN  Len(parts) = 2 /\ IsDigits(parts[1]) /\ IsDigits(parts[2])

ClockTextMinutes(text) ==
    LET parts == Split(text, ":")
    IN  MinutesPerHour * LiteralValue(parts[1], 0) + LiteralValue(parts[2], 0)

\* C11.  TimeInMinutesField.clean accepts a text only if it is empty or of
\* the form H:M with H and M non-negative integers, and then returns
\* 60*H + M (0 for the empty text), never a negative number; every other
\* text is rejected.
C11_OnlyClockTextAccepted ==
    ParseDone =>
        /\ calc.result.ok =>
              /\ calc.text = <<>> \/ IsClockText(calc.text)
              /\ calc.result.value >= 0
              /\ calc.result.value =
                    IF calc.text = <<>> THEN 0 ELSE ClockTextMinutes(calc.text)
        /\ ~(calc.text = <<>> \/ IsClockText(calc.text)) => ~calc.result.ok

ReportDone == calc.op = "report" /\ calc.done

\* The flights of the pilot the report is for.
ReportKeys == {k \in DOMAIN flights : flights[k].pilot = calc.user}

RECURSIVE ExactMinutesOver(_)
\* The sum of exact_flight_minutes over a set of flights.
ExactMinutesOver(keys) ==
    IF keys = {} THEN 0
    ELSE LET k == CHOOSE x \in keys : TRUE
         IN  exact_flight_minutes(flights[k]) + ExactMinutesOver(keys \ {k})

\* C12.  A pilot's total flight time is the sum of exact_flight_minutes over
\* exactly that pilot's flights (hours are that number of minutes over 60),
\* and the dashboard, the unfiltered flight list, the charts, the CSV export
\* and the PDF export report that same total, the exports as HH:MM text.
C12_OneTotalEverywhere ==
    ReportDone =>
        LET total == ExactMinutesOver(ReportKeys)
        IN  /\ calc.dashboard_total = total
            /\ calc.list_total = total
            /\ calc.charts_total = total
            /\ calc.csv_total = (IF total = 0 THEN ZeroClock ELSE ClockText(total))
            /\ calc.pdf_total = calc.csv_total

C12_Witness ==
    /\ ReportDone
    /\ Cardinality(ReportKeys) >= 2
    /\ ReportKeys # DOMAIN flights
    /\ \E k \in ReportKeys :
          TotalTimeMinutes(flights[k].total_time, FALSE) # exact_flight_minutes(flights[k])
    /\ calc.dashboard_total = ExactMinutesOver(ReportKeys)
    /\ calc.dashboard_total > 0

\* The registration a flight is to be counted under.
UsageKey(flight) ==
    IF flight.aircraft # NoAircraft THEN aircraft[flight.aircraft].registration
    ELSE IF flight.aircraft_registration # <<>> THEN flight.aircraft_registration
    ELSE SIM

\* The flights of the report counted under a registration.
KeysUnder(registration) == {k \in ReportKeys : UsageKey(flights[k]) = registration}

\* C13.  Without a limit, calculate_aircraft_usage_accurate counts every
\* flight in exactly one group: under its aircraft's registration, else
\* under its preserved registration, else under SIM.  Each group holds the
\* count and the minutes of its flights, so the counts sum to the number of
\* flights and the minutes to the sum of the flights' exact_flight_minutes.
C13_EveryFlightInOneGroup ==
    (ReportDone /\ calc.limit = None) =>
        /\ \A k \in ReportKeys :
              Cardinality({i \in 1..Len(calc.usage) :
                              calc.usage[i].registration = UsageKey(flights[k])}) = 1
        /\ \A i \in 1..Len(calc.usage) :
              /\ KeysUnder(calc.usage[i].registration) # {}
              /\ calc.usage[i].flight_count = Cardinality(KeysUnder(calc.usage[i].registration))
              /\ calc.usage[i].total_hours = ExactMinutesOver(KeysUnder(calc.usage[i].registration))
        /\ SumSeq([i \in 1..Len(calc.usage) |-> calc.usage[i].flight_count])
              = Cardinality(ReportKeys)
        /\ SumSeq([i \in 1..Len(calc.usage) |-> calc.usage[i].total_hours])
              = ExactMinutesOver(ReportKeys)

C13_Witness ==
    /\ ReportDone /\ calc.limit = None
    /\ Len(calc.usage) = 3
    /\ \E i \in 1..3 : calc.usage[i].registration = SIM
    /\ \E i \in 1..3 : calc.usage[i].registration = <<"N", "1", "X">>
    /\ \E k \in ReportKeys : flights[k].aircraft # NoAircraft

\* C14.  The list calculate_aircraft_usage_accurate returns is ordered by
\* non-increasing total hours and, for a limit n (0 included), has at most n
\* entries: the first n of the whole ordered list.
C14_OrderedAndLimited ==
    ReportDone =>
        /\ \A i \in 1..(Len(calc.usage) - 1) :
              calc.usage[i].total_hours >= calc.usage[i + 1].total_hours
        /\ calc.limit # None =>
              /\ Len(calc.usage) <= calc.limit
              /\ \E whole \in calculate_aircraft_usage_accurate(UserFlights(calc.user), None) :
                    calc.usage = SubSeq(whole, 1, IF calc.limit < Len(whole)
                                                  THEN calc.limit ELSE Len(whole))

\* The role a label stands for; "Std" and "Standard" are no role of the
\* priority order.
RoleOfLabel(label) ==
    IF label \in {"PIC"} THEN "PIC"
    ELSE IF label \in {"SIC", "Co-Pilot"} THEN "SIC"
    ELSE IF label \in {"DUAL", "Dual", "Instructor"} THEN "DUAL"
    ELSE IF label \in {"MULTI", "Multi-Pilot"} THEN "MULTI"
    ELSE IF label \in {"SIM", "Simulator"} THEN "SIM"
    ELSE "none"

\* The role of a flight by the priority order.
RoleByPriority(flight) ==
    IF flight.pic_time > 0 THEN "PIC"
    ELSE IF flight.copilot_time > 0 THEN "SIC"
    ELSE IF flight.instructor_time > 0 THEN "DUAL"
    ELSE IF flight.multi_pilot_time > 0 THEN "MULTI"
    ELSE IF flight.simulator_time > 0 THEN "SIM"
    ELSE "PIC"

\* C15.  get_pilot_role_display, the Role column of the PDF export and the
\* label of the charts view give every flight the role of the same priority
\* order: PIC, else SIC, else DUAL, else MULTI, else SIM, else PIC.
C15_OneRoleOrderEverywhere ==
    ReportDone =>
        \A i \in 1..Len(calc.roles) :
            LET role == RoleByPriority(UserFlights(calc.user)[i])
            IN  /\ RoleOfLabel(calc.roles[i].display) = role
                /\ RoleOfLabel(calc.roles[i].pdf) = role
                /\ RoleOfLabel(calc.roles[i].charts) = role

RECURSIVE PicTimeOver(_)
\* The sum of pic_time over a set of flights.
PicTimeOver(keys) ==
    IF keys = {} THEN 0
    ELSE LET k == CHOOSE x \in keys : TRUE
         IN  flights[k].pic_time + PicTimeOver(keys \ {k})

\* C16.  The solo total equals the PIC total: the profile's
\* total_solo_hours and total_pic_hours and the charts' solo_hours are each
\* the sum of pic_time over the pilot's flights, whatever the co-pilot and
\* instructor times of the flights.
C16_SoloIsPic ==
    ReportDone =>
        /\ calc.solo = calc.pic
        /\ calc.pic = PicTimeOver(ReportKeys)
        /\ calc.charts_solo = PicTimeOver(ReportKeys)

C16_Witness ==
    /\ ReportDone
    /\ \E k \in ReportKeys : flights[k].pic_time > 0 /\ flights[k].instructor_time > 0
    /\ \E k \in ReportKeys : flights[k].pic_time = 0 /\ flights[k].copilot_time > 0
    /\ calc.solo = calc.pic /\ calc.solo > 0

\* C17.  A flight's engine_type is the current engine type of its aircraft
\* while the reference exists and the preserved aircraft_engine_type once it
\* is gone; is_single_engine and is_multi_engine are never both true, and
\* exactly one of them is true for a flight that has an aircraft.
C17_EngineTypeFollowsAircraft ==
    \A k \in DOMAIN flights :
        LET f == flights[k]
        IN  /\ f.aircraft # NoAircraft => engine_type(f) = aircraft[f.aircraft].engine_type
            /\ f.aircraft = NoAircraft => engine_type(f) = f.aircraft_engine_type
            /\ ~(is_single_engine(f) /\ is_multi_engine(f))
            /\ f.aircraft # NoAircraft => (is_single_engine(f) \/ is_multi_engine(f))
            /\ is_single_engine(f) <=> engine_type(f) = "SINGLE"
            /\ is_multi_engine(f) <=> engine_type(f) = "MULTI"

C17_Witness ==
    \E k \in DOMAIN flights :
        /\ flights[k].aircraft # NoAircraft
        /\ flights[k].aircraft_engine_type = "SINGLE"
        /\ aircraft[flights[k].aircraft].engine_type = "MULTI"
        /\ engine_type(flights[k]) = "MULTI"
        /\ is_multi_engine(flights[k]) /\ ~is_single_engine(flights[k])

AircraftDeleted == calc.op = "aircraft_delete"

\* C19.  Deleting an aircraft deletes no flight: every flight is still
\* stored, and each flight that referenced the aircraft has no aircraft
\* reference and carries the aircraft's registration, manufacturer, type and
\* engine type as they were at the deletion; the aircraft itself is gone.
C19_AircraftDeleteKeepsFlights ==
    AircraftDeleted =>
        /\ calc.pk \notin DOMAIN aircraft
        /\ DOMAIN flights = DOMAIN calc.before
        /\ \A k \in DOMAIN calc.before :
              calc.before[k].aircraft = calc.pk =>
                  /\ flights[k].aircraft = NoAircraft
                  /\ flights[k].aircraft_registration = calc.row.registration
                  /\ flights[k].aircraft_manufacturer = calc.row.manufacturer
                  /\ flights[k].aircraft_type = calc.row.type
                  /\ flights[k].aircraft_engine_type = calc.row.engine_type
                  /\ flights[k].pilot = calc.before[k].pilot
                  /\ flights[k].departure_time = calc.before[k].departure_time
                  /\ flights[k].arrival_time = calc.before[k].arrival_time

C19_Witness ==
    /\ AircraftDeleted
    /\ \E k \in DOMAIN calc.before :
          /\ calc.before[k].aircraft = calc.pk
          /\ calc.before[k].aircraft_type # calc.row.type
          /\ flights[k].aircraft = NoAircraft
          /\ flights[k].aircraft_type = calc.row.type
    /\ \E k \in DOMAIN calc.before : calc.before[k].aircraft # calc.pk

\* C20.  Deleting an aircraft leaves the single_engine_time and
\* multi_engine_time of every flight that referenced it as they were.
C20_AircraftDeleteKeepsEngineTimes ==
    AircraftDeleted =>
        \A k \in DOMAIN calc.before :
            calc.before[k].aircraft = calc.pk =>
                /\ flights[k].single_engine_time = calc.before[k].single_engine_time
                /\ flights[k].multi_engine_time = calc.before[k].multi_engine_time

\* The stored flight the handled submission was about.
SubmittedFlight == flights[form.pk]

\* The minutes between the stored departure and arrival times.
StoredDuration ==
    ElapsedSeconds(SubmittedFlight.departure_time, SubmittedFlight.arrival_time) \div 60

\* C18.  After a successful create or edit through FlightForm the stored
\* total_time is the duration between the stored departure and arrival
\* times, to the precision of the column (within 0.06 hours of it), and the
\* engine time of a flight with an aircraft is within that precision of the
\* duration as well; so an edit of the times moves both.
C18_TotalTimeFollowsTimes ==
    Accepted =>
        LET off == 6 * SubmittedFlight.total_time - 10 * StoredDuration
            engine == SubmittedFlight.single_engine_time + SubmittedFlight.multi_engine_time
        IN  /\ off <= 36 /\ off >= -36
            /\ SubmittedFlight.aircraft # NoAircraft =>
                  (engine - StoredDuration <= 4 /\ StoredDuration - engine <= 4)

\* The same for creates only.
CreatedTotalTimeFollowsTimes == form.op = "create" => C18_TotalTimeFollowsTimes

(***************************************************************************)
(* Properties of the manual registration, the repeated save and the         *)
(* recalculation                                                            *)
(***************************************************************************)

\* The handled submission was valid and had a typed registration and no
\* aircraft selected.
ManualAccepted == Accepted /\ form.data.aircraft = NoAircraft

\* C21: after a flight is saved through FlightForm with a typed registration
\* and no aircraft selected, the stored flight has no aircraft reference, its
\* aircraft_registration is the typed text in upper case, and its
\* aircraft_manufacturer, aircraft_type and aircraft_engine_type are blank,
\* also when the flight referenced an aircraft before the edit.
C21_ManualRegistrationBlanksDetails ==
    ManualAccepted =>
        /\ SubmittedFlight.aircraft = NoAircraft
        /\ SubmittedFlight.aircraft_registration =
              Upper(Strip(form.data.manual_aircraft_registration))
        /\ SubmittedFlight.aircraft_manufacturer = ""
        /\ SubmittedFlight.aircraft_type = ""
        /\ SubmittedFlight.aircraft_engine_type = ""

\* The same on a new flight and on a flight that referenced no aircraft: the
\* part of C21 the code satisfies.
ManualRegistrationOnFlightWithoutAircraft ==
    (ManualAccepted /\ form.instance.aircraft = NoAircraft) =>
        /\ SubmittedFlight.aircraft = NoAircraft
        /\ SubmittedFlight.aircraft_registration =
              Upper(Strip(form.data.manual_aircraft_registration))
        /\ SubmittedFlight.aircraft_manufacturer = ""
        /\ SubmittedFlight.aircraft_type = ""
        /\ SubmittedFlight.aircraft_engine_type = ""

(***************************************************************************)
(* A stored flight loaded and saved again                                   *)
(***************************************************************************)

\* Bound of the model: the longest flight, in minutes.
MaxResaveMinutes == 130

\* The stored flights: created through the form from 10:00, of every number
\* of minutes the form accepts up to the bound, on either aircraft or with
\* a typed registration.
ResaveRows ==
    {StoredRow(FlightForm_save(CreateInstance("alice"),
                               FormData(ac, N1X, "LFPO", T1000, T1000 + Minutes(m),
                                        NoCategories))) :
        ac \in {NoAircraft, 1, 2},
        m \in (MinDurationSeconds \div SecondsPerMinute)..MaxResaveMinutes}

ResaveInit ==
    /\ aircraft = FormAircraft
    /\ half_even \in BOOLEAN
    /\ flights \in {Put(EmptyTable, 1, row) : row \in ResaveRows}
    /\ form = NoForm
    /\ calc = NoCalc

\* Flight.objects.get(pk=pk).save(): the stored row is loaded, total_time a
\* Decimal as stored, and saved with no field changed; the row before is
\* kept in calc.
Resave(pk) ==
    /\ calc.op = "none"
    /\ pk \in DOMAIN flights
    /\ flights' = [flights EXCEPT ![pk] = StoredRow(Flight_save(flights[pk], FALSE))]
    /\ calc' = [op |-> "resave", pk |-> pk, before |-> flights[pk]]
    /\ form' = NoForm
    /\ UNCHANGED <<aircraft, half_even>>

ResaveNext == \E pk \in FlightIds : Resave(pk)

ResaveSpec == ResaveInit /\ [][ResaveNext]_vars

\* A stored flight has been saved again.
Resaved == calc.op = "resave"

\* C22: saving a stored flight again with no field changed leaves its
\* total_time, single_engine_time and multi_engine_time as they were, for
\* every flight duration.
C22_ResaveChangesNothing ==
    Resaved =>
        /\ flights[calc.pk].total_time = calc.before.total_time
        /\ flights[calc.pk].single_engine_time = calc.before.single_engine_time
        /\ flights[calc.pk].multi_engine_time = calc.before.multi_engine_time

\* The same for total_time alone, and for the engine times of a flight whose
\* duration is a whole number of tenths of an hour: the part of C22 the code
\* satisfies.
ResaveKeepsTotalTime ==
    Resaved => flights[calc.pk].total_time = calc.before.total_time

ResaveKeepsEngineTimesOfTenths ==
    (Resaved /\ exact_flight_minutes(calc.before) % 6 = 0) =>
        /\ flights[calc.pk].single_engine_time = calc.before.single_engine_time
        /\ flights[calc.pk].multi_engine_time = calc.before.multi_engine_time

(***************************************************************************)
(* Runs of recalculate_flight_times over a stored logbook                   *)
(***************************************************************************)

\* Command.handle, lines 24-56, for one flight of the queryset: acc holds
\* the rows as the database has them and updated_count so far.
\* A plausible slip: the flight counted only where it is saved.
handle_flight_counted_when_saved(acc, pk, dry_run) ==
    IF NeedsUpdate(acc.flights[pk])
    THEN IF dry_run THEN acc
         ELSE [flights |-> [acc.flights EXCEPT
                               ![pk] = StoredRow(RecalculateFlight(acc.flights[pk]))],
               updated_count |-> acc.updated_count + 1]
    ELSE acc

\* Command.handle, lines 24-56, for one flight of the queryset: acc holds
\* the rows as the database has them and updated_count so far.
handle_flight(acc, pk, dry_run) ==
    IF NeedsUpdate(acc.flights[pk])
    THEN [flights |-> IF dry_run THEN acc.flights
                      ELSE [acc.flights EXCEPT
                               ![pk] = StoredRow(RecalculateFlight(acc.flights[pk]))],
          updated_count |-> acc.updated_count + 1]
    ELSE acc

RECURSIVE handle_loop(_, _, _)
\* for flight in flights: ..., over the keys still to come
handle_loop(acc, keys, dry_run) ==
    IF keys = <<>> THEN acc
    ELSE handle_loop(handle_flight(acc, Head(keys), dry_run), Tail(keys), dry_run)

\* Command.handle on the rows of the database: the rows afterwards and the
\* updated_count it reports.  No save of the model raises, so errors stays
\* empty.
handle(rows, dry_run) ==
    handle_loop([flights |-> rows, updated_count |-> 0],
                KeysInOrder(DOMAIN rows), dry_run)

\* Bounds of the model: the stored flights and the runs of the command.
MaxRecalcFlights == 2

MaxRuns == 2

\* The minutes of the stored flights: the shortest the form accepts, 7
\* minutes, 50 minutes, one and two hours, and an overnight flight.
RecalcMinutes == {6, 7, 50, 60, 120, 900}

\* The stored flights as the form creates them, from 10:00.
RecalcCreated ==
    {FlightForm_save(CreateInstance(user),
                     FormData(ac, N1X, "LFPO", T1000,
                              (T1000 + Minutes(m)) % SecondsPerDay, NoCategories)) :
        user \in {"alice"}, ac \in {NoAircraft, 1, 2}, m \in RecalcMinutes}

\* Two-hour flights edited through the form to 50 minutes: total_time stays
\* that of the two hours.
RecalcEdited ==
    {FlightForm_save(StoredRow(row),
                     FormData(row.aircraft, N1X, "LFPO", T1000, T1000 + Minutes(50),
                              NoCategories)) :
        row \in {r \in RecalcCreated : exact_flight_minutes(r) = 120}}

RecalcRows == {StoredRow(row) : row \in RecalcCreated \cup RecalcEdited}

RecalcInit ==
    /\ aircraft = FormAircraft
    /\ half_even \in BOOLEAN
    /\ \E n \in 1..MaxRecalcFlights : flights \in [1..n -> RecalcRows]
    /\ form = NoForm
    /\ calc = [op |-> "recalculate", runs |-> <<>>]

\* python manage.py recalculate_flight_times [--dry-run]: the run is added
\* to calc with the rows it found and the count it reported.
RunRecalculate(dry_run) ==
    /\ Len(calc.runs) < MaxRuns
    /\ flights' = handle(flights, dry_run).flights
    /\ calc' = [calc EXCEPT !.runs =
                   Append(@, [dry_run |-> dry_run, before |-> flights,
                              updated_count |-> handle(flights, dry_run).updated_count])]
    /\ form' = NoForm
    /\ UNCHANGED <<aircraft, half_even>>

RecalcNext == \E dry_run \in BOOLEAN : RunRecalculate(dry_run)

RecalcSpec == RecalcInit /\ [][RecalcNext]_vars

\* The last run of the command.
LastRun == calc.runs[Len(calc.runs)]

\* The command has just run without --dry-run.
Recalculated == calc.runs # <<>> /\ ~LastRun.dry_run

\* total_time, in hundredths of an hour, is within 0.01 hours of
\* exact_flight_minutes / 60.
WithinHundredth(flight) ==
    LET off == 6 * flight.total_time - 10 * exact_flight_minutes(flight)
    IN  off <= 6 /\ off >= -6

\* C23: after a run of recalculate_flight_times without --dry-run, every
\* flight with both times has a stored total_time within 0.01 hours of
\* exact_flight_minutes / 60, and a run that follows updates no flight.
C23_RecalculationSettles ==
    Recalculated =>
        /\ \A k \in DOMAIN flights : WithinHundredth(flights[k])
        /\ (Len(calc.runs) >= 2 /\ ~calc.runs[Len(calc.runs) - 1].dry_run) =>
              LastRun.updated_count = 0

\* After such a run total_time is exact_flight_minutes / 60 to the one
\* decimal place of the column: the part of C23 the code satisfies.
RecalculationWithinColumnPrecision ==
    Recalculated =>
        \A k \in DOMAIN flights :
            LET off == 6 * flights[k].total_time - 10 * exact_flight_minutes(flights[k])
            IN  off <= 36 /\ off >= -36

\* The command has just run with --dry-run.
DryRun == calc.runs # <<>> /\ LastRun.dry_run

\* C24: with --dry-run the command changes no field of any flight, and the
\* number of flights it reports it would update is the number a run without
\* --dry-run on the same rows reports as updated.
C24_DryRunChangesNothing ==
    DryRun =>
        /\ flights = LastRun.before
        /\ LastRun.updated_count = handle(LastRun.before, FALSE).updated_count

\* A dry run has reported flights to update, one of them a flight whose
\* stored total_time is that of another duration, and has left them as they
\* were.
C24_Witness ==
    /\ DryRun
    /\ LastRun.updated_count > 0
    /\ \E k \in DOMAIN flights :
          /\ NeedsUpdate(flights[k])
          /\ ~WithinHundredth(flights[k])
          /\ flights[k].total_time = 200

\* A run without --dry-run right after a dry run reports the number of
\* flights the dry run reported.
DryRunCountIsNextRunCount ==
    (Len(calc.runs) = 2 /\ calc.runs[1].dry_run /\ ~calc.runs[2].dry_run) =>
        calc.runs[2].updated_count = calc.runs[1].updated_count

(***************************************************************************)
(* The totals of the pilots when an aircraft is deleted                     *)
(***************************************************************************)

\* sum(flight.night_time for flight in self.user.flights.all()), in minutes
total_night_hours(user) ==
    LET rows == UserFlights(user)
    IN  SumSeq([i \in 1..Len(rows) |-> rows[i].night_time])

\* PilotProfile.total_cross_country_hours, in minutes
total_cross_country_hours(user) ==
    LET rows == UserFlights(user)
    IN  SumSeq([i \in 1..Len(rows) |->
                  IF is_cross_country(rows[i]) THEN exact_flight_minutes(rows[i]) ELSE 0])

\* sum(flight.ifr_time for flight in self.user.flights.all()), in minutes
total_instrument_hours(user) ==
    LET rows == UserFlights(user)
    IN  SumSeq([i \in 1..Len(rows) |-> rows[i].ifr_time])

\* PilotProfile.total_dual_hours, in minutes
total_dual_hours(user) ==
    LET rows == UserFlights(user)
    IN  SumSeq([i \in 1..Len(rows) |->
                  IF rows[i].instructor_time > 0 THEN rows[i].instructor_time ELSE 0])

\* The lifetime totals of a pilot's profile.
PilotTotals(user) ==
    [total |-> total_flight_hours(user), night |-> total_night_hours(user),
     ifr |-> total_instrument_hours(user), pic |-> total_pic_hours(user),
     dual |-> total_dual_hours(user),
     cross_country |-> total_cross_country_hours(user)]

\* The aircraft-usage summary of a pilot's flights: for each registration
\* the minutes and the number of flights.
UsageSummary(user) ==
    LET totals == aircraft_totals(UserFlights(user))
    IN  {[registration |-> totals[i].registration,
          total_hours |-> totals[i].total_hours,
          flight_count |-> totals[i].flight_count] : i \in 1..Len(totals)}

\* Bound: the flights stored when an aircraft is deleted.
MaxTotalsFlights == 2

\* The flights stored: those of the reports, and a local night flight under
\* IFR on F-GABC.
TotalsRows ==
    ReportRows
    \cup {StoredRow(FlightForm_save(CreateInstance("alice"),
              FormData(1, <<>>, "LFPB", T1000, T1000 + Minutes(60),
                       [NoCategories EXCEPT !["night_time"] = OneHour,
                                            !["ifr_time"] = FiftyMinutes])))}

TotalsInit ==
    /\ aircraft = FormAircraft
    /\ half_even = TRUE
    /\ \E n \in 1..MaxTotalsFlights : flights \in [1..n -> TotalsRows]
    /\ form = NoForm
    /\ calc = NoCalc

\* AircraftDeleteView.post, with the profile totals and the usage summary of
\* every pilot as they were before it kept in calc.
TotalledAircraftDelete(pk) ==
    /\ DeleteAircraft(pk)
    /\ form' = NoForm
    /\ calc' = [op |-> "aircraft_delete", pk |-> pk, row |-> aircraft[pk],
                before |-> flights,
                totals |-> [u \in Pilots |-> PilotTotals(u)],
                usage |-> [u \in Pilots |-> UsageSummary(u)]]

TotalsNext ==
    \/ \E pk \in AircraftIds, row \in AircraftInputs : AircraftUpdate(pk, row)
    \/ \E pk \in AircraftIds : TotalledAircraftDelete(pk)

TotalsSpec == TotalsInit /\ [][TotalsNext]_vars

\* C25: deleting an aircraft through AircraftDeleteView leaves every pilot's
\* lifetime totals (total, night, IFR, PIC, dual, cross-country) and the
\* aircraft-usage summary (minutes and flight count per registration) as
\* they were.
C25_AircraftDeleteKeepsTotals ==
    AircraftDeleted =>
        \A u \in Pilots :
            /\ PilotTotals(u) = calc.totals[u]
            /\ UsageSummary(u) = calc.usage[u]

\* An aircraft that had been re-registered was deleted while a night flight
\* under IFR referenced it, and another flight of the pilot is under another
\* registration.
C25_Witness ==
    /\ AircraftDeleted
    /\ \E k \in DOMAIN calc.before :
          /\ calc.before[k].aircraft = calc.pk
          /\ calc.before[k].aircraft_registration # calc.row.registration
          /\ calc.before[k].night_time > 0 /\ calc.before[k].ifr_time > 0
          /\ Cardinality(calc.usage[calc.before[k].pilot]) = 2
          /\ calc.totals[calc.before[k].pilot].night > 0

====
